---------------------------- MODULE Spec2Model ----------------------------
(***************************************************************************)
(* Router / DNS configuration subsystem of the VPN client.                 *)
(*                                                                         *)
(*   Spec        the Windows Router facade (Up / Set / Close) together     *)
(*               with the OS route-change notification registry            *)
(*   SpecDetect  the DNS backend detection probes                          *)
(*   SpecDns     the DNS appliers (resolvconf and resolved), one call      *)
(*               at a time, with the child operations they wait for        *)
(***************************************************************************)
EXTENDS Integers, Sequences, FiniteSets, TLC

\* ------------------------------------------------------------------------
\* Bounds of the model
\* ------------------------------------------------------------------------

\* successful route-monitor registrations in one run
MaxRegs == 3

\* Close calls in one run
MaxCloses == 3

\* lines of the resolver file
MaxLines == 3

\* successful Down calls in a row that are counted after a successful Up
MaxDowns == 1

\* ------------------------------------------------------------------------
\* Router state (router_windows.go)
\* ------------------------------------------------------------------------
VARIABLES
    alive,               \* the process is running (log.Fatalf ends it)
    routeChangeCallback, \* winRouter.routeChangeCallback: Nil or a handle
    registered,          \* OS side: handles whose callback is registered
    nHandles,            \* handles created so far by monitorDefaultRoutes
    unregisterCalls,     \* handle -> number of Unregister invocations on it
    nCloses,             \* Close calls begun so far
    pc,                  \* position inside the call in progress, or "idle"
    phase,               \* lifecycle as the caller sees it
    lastCall,            \* the last call that ended: [op, ret]
    applied,             \* interface state left by configureInterface
    invokedAfterClose,   \* a callback ran while the Router was closed
    lastSet              \* the last Set: its argument and the step that failed

routerVars == <<alive, routeChangeCallback, registered, nHandles,
                unregisterCalls, nCloses, pc, phase, lastCall, applied,
                invokedAfterClose, lastSet>>

\* ------------------------------------------------------------------------
\* What the detection probes see (dns_resolved.go, router_default.go)
\* ------------------------------------------------------------------------
VARIABLES
    systemctlBin,   \* exec.LookPath("systemctl") succeeds
    isActiveExit,   \* exit status of `systemctl is-active systemd-resolved`
    resolvconfBin,  \* exec.LookPath("resolvconf") succeeds
    fileOpenOk,     \* /etc/resolv.conf can be opened
    file,           \* /etc/resolv.conf: a sequence of lines
    probe,          \* outcome of the probe `resolvconf -v`
    dPc,            \* "input" before detection has run, "done" after
    resolvedActive,   \* what resolvedIsActive returned
    resolvconfActive, \* what resolvconfIsActive returned
    implementation,   \* what getResolvconfImplementation returned
    backend           \* the backend detection chose

detectVars == <<systemctlBin, isActiveExit, resolvconfBin, fileOpenOk, file,
                probe, dPc, resolvedActive, resolvconfActive,
                implementation, backend>>

\* ------------------------------------------------------------------------
\* The DNS appliers and what they act on (router_default.go,
\* dns_resolved.go)
\* ------------------------------------------------------------------------
VARIABLES
    aCall,       \* the applier call in progress or last made
    aPc,         \* the child operation the call waits for, or "idle"
    aCfg,        \* the DNSConfig given to Up
    aImpl,       \* the resolvconf implementation this call detected
    childState,  \* "none", "running", or "hung": it will never respond
    ctxExpired,  \* the call's timeout context has expired
    aRet,        \* what the last call returned
    busCalls,    \* the bus method calls issued by the call, in order
    argv,        \* the command line of the resolvconf command the call runs
    records,     \* resolvconf's records, by name
    link,        \* resolved's registration for the tunnel's link
    iface,       \* what interfaces.Tailscale() finds
    tool,        \* the resolvconf implementation that is installed
    fault,       \* a child operation of the call failed on its own account
    pre,         \* what the call found when it was entered
    run          \* the successful Up / Down calls in a row before the call

dnsVars == <<aCall, aPc, aCfg, aImpl, childState, ctxExpired, aRet,
             busCalls, argv, records, link, iface,
            tool, fault, pre, run>>

\* ------------------------------------------------------------------------
\* The DNS Manager: detection, then the applier of the detected backend
\* ------------------------------------------------------------------------
VARIABLES
    mOp,         \* the last call of the manager: "Up", "Down" or "none"
    mBackend,    \* the backend that call detected
    mUpBackend,  \* the backend the last Up detected
    mApplier     \* the applier function that call delegated to

managerVars == <<mOp, mBackend, mUpBackend, mApplier>>

\* the nil handle; real handles are 1, 2, ...
Nil == 0

Handles == 1..MaxRegs

\* route sets a Config may carry; {} is what shutdownConfig carries
RouteSets == {{}, {"r1"}, {"r1", "r2"}}

DNSChoices == {"none", "dnsA", "dnsB"}

Configs == [routes : RouteSets, dns : DNSChoices]

\* var shutdownConfig = Config{}: the canonical empty configuration
shutdownConfig == [routes |-> {}, dns |-> "none"]

\* monitorDefaultRoutes: registers a callback on default-route changes and
\* returns its handle, or fails and returns no handle.
monitorDefaultRoutes(ok) ==
    IF ok THEN [cb |-> nHandles + 1, err |-> FALSE]
          ELSE [cb |-> Nil, err |-> TRUE]

\* RouteChangeCallback.Unregister: removes the callback from the OS
\* registry; removing one that is not there changes nothing.
Unregister(h) == registered \ {h}

\* configureInterface: interface, routes and firewall mode first, DNS
\* second.  failAt says which step, if any, fails.
configureInterface(cfg, failAt) ==
    CASE failAt = "iface" -> [state |-> applied, err |-> TRUE]
      [] failAt = "dns"   -> [state |-> [applied EXCEPT !.routes = cfg.routes],
                              err |-> TRUE]
      [] OTHER            -> [state |-> cfg, err |-> FALSE]

RouterInit ==
    /\ alive = TRUE
    /\ routeChangeCallback = Nil
    /\ registered = {}
    /\ nHandles = 0
    /\ unregisterCalls = [h \in Handles |-> 0]
    /\ nCloses = 0
    /\ pc = "idle"
    /\ phase = "created"
    /\ lastCall = [op |-> "none", ret |-> "none"]
    /\ applied = shutdownConfig
    /\ invokedAfterClose = FALSE
    /\ lastSet = [arg |-> [nil |-> TRUE], failAt |-> "none"]

\* A mutant of Up: a failed registration is returned to the caller as
\* success and the Router carries on.
UpIgnoringFailure ==
    /\ alive /\ pc = "idle"
    /\ \E ok \in BOOLEAN :
        /\ ok => nHandles < MaxRegs
        /\ LET res == monitorDefaultRoutes(ok) IN
            /\ routeChangeCallback' = res.cb
            /\ registered' = IF res.err THEN registered
                                        ELSE registered \cup {res.cb}
            /\ nHandles' = IF res.err THEN nHandles ELSE nHandles + 1
            /\ phase' = "up"
            /\ lastCall' = [op |-> "Up", ret |-> "nil"]
    /\ UNCHANGED <<alive, unregisterCalls, nCloses, pc, applied,
                   invokedAfterClose>>
    /\ UNCHANGED lastSet
    /\ UNCHANGED <<detectVars, dnsVars, managerVars>>

\* winRouter.Up
Up ==
    /\ alive /\ pc = "idle"
    /\ \E ok \in BOOLEAN :
        /\ ok => nHandles < MaxRegs
        /\ LET res == monitorDefaultRoutes(ok) IN
            /\ routeChangeCallback' = res.cb
            /\ IF res.err
               THEN \* log.Fatalf: the process exits, Up never returns
                    /\ alive' = FALSE
                    /\ registered' = {}
                    /\ nHandles' = nHandles
                    /\ phase' = "dead"
                    /\ lastCall' = [op |-> "Up", ret |-> "fatal"]
               ELSE /\ alive' = TRUE
                    /\ registered' = registered \cup {res.cb}
                    /\ nHandles' = nHandles + 1
                    /\ phase' = "up"
                    /\ lastCall' = [op |-> "Up", ret |-> "nil"]
    /\ UNCHANGED <<unregisterCalls, nCloses, pc, applied, invokedAfterClose>>
    /\ UNCHANGED lastSet
    /\ UNCHANGED <<detectVars, dnsVars, managerVars>>

\* the arguments Set may be given: the nil pointer, or a pointer to a Config
SetArgs == {[nil |-> TRUE]} \cup {[nil |-> FALSE, cfg |-> c] : c \in Configs}

\* the step of configureInterface that fails, if any
SetFailures == {"none", "iface", "dns"}

\* A mutant of Set: the nil pointer is refused instead of being replaced.
SetOutcomeNilRefused(arg, failAt) ==
    IF arg.nil
    THEN [state |-> applied, ret |-> "err"]
    ELSE LET res == configureInterface(arg.cfg, failAt)
         IN  [state |-> res.state, ret |-> IF res.err THEN "err" ELSE "nil"]

\* A mutant of Set: a failed configureInterface is rolled back.
SetOutcomeRolledBack(arg, failAt) ==
    LET cfg == IF arg.nil THEN shutdownConfig ELSE arg.cfg
        res == configureInterface(cfg, failAt)
    IN  [state |-> IF res.err THEN applied ELSE res.state,
         ret |-> IF res.err THEN "err" ELSE "nil"]

\* winRouter.Set, as a function of the state it is called in:
\*   if cfg == nil { cfg = &shutdownConfig }
\*   err := configureInterface(cfg, r.nativeTun)
\*   if err != nil { return err }; return nil
SetOutcome(arg, failAt) ==
    LET cfg == IF arg.nil THEN shutdownConfig ELSE arg.cfg
        res == configureInterface(cfg, failAt)
    IN  [state |-> res.state, ret |-> IF res.err THEN "err" ELSE "nil"]

\* winRouter.Set
Set ==
    /\ alive /\ pc = "idle"
    /\ \E arg \in SetArgs, failAt \in SetFailures :
        LET out == SetOutcome(arg, failAt)
        IN  /\ applied' = out.state
            /\ lastCall' = [op |-> "Set", ret |-> out.ret]
            /\ lastSet' = [arg |-> arg, failAt |-> failAt]
    /\ UNCHANGED <<alive, routeChangeCallback, registered, nHandles,
                   unregisterCalls, nCloses, pc, phase, invokedAfterClose>>
    /\ UNCHANGED <<detectVars, dnsVars, managerVars>>

\* winRouter.Close, entered
CloseBegin ==
    /\ alive /\ pc = "idle"
    /\ nCloses < MaxCloses
    /\ nCloses' = nCloses + 1
    /\ pc' = "close_check"
    /\ phase' = "closing"
    /\ UNCHANGED <<alive, routeChangeCallback, registered, nHandles,
                   unregisterCalls, lastCall, applied, invokedAfterClose>>
    /\ UNCHANGED lastSet
    /\ UNCHANGED <<detectVars, dnsVars, managerVars>>

\* A mutant of Close: besides unregistering, it reverts what Set applied.
CloseUnregisterReverting ==
    /\ alive /\ pc = "close_check"
    /\ IF routeChangeCallback # Nil
       THEN /\ registered' = Unregister(routeChangeCallback)
            /\ unregisterCalls' =
                 [unregisterCalls EXCEPT ![routeChangeCallback] = @ + 1]
       ELSE UNCHANGED <<registered, unregisterCalls>>
    /\ applied' = shutdownConfig
    /\ pc' = "close_ret"
    /\ UNCHANGED <<alive, routeChangeCallback, nHandles, nCloses, phase,
                   lastCall, invokedAfterClose>>
    /\ UNCHANGED lastSet
    /\ UNCHANGED <<detectVars, dnsVars, managerVars>>

\* winRouter.Close: if r.routeChangeCallback != nil { Unregister() }
CloseUnregister ==
    /\ alive /\ pc = "close_check"
    /\ IF routeChangeCallback # Nil
       THEN /\ registered' = Unregister(routeChangeCallback)
            /\ unregisterCalls' =
                 [unregisterCalls EXCEPT ![routeChangeCallback] = @ + 1]
       ELSE UNCHANGED <<registered, unregisterCalls>>
    /\ pc' = "close_ret"
    /\ UNCHANGED <<alive, routeChangeCallback, nHandles, nCloses, phase,
                   lastCall, applied, invokedAfterClose>>
    /\ UNCHANGED lastSet
    /\ UNCHANGED <<detectVars, dnsVars, managerVars>>

\* winRouter.Close: return nil
CloseReturn ==
    /\ alive /\ pc = "close_ret"
    /\ pc' = "idle"
    /\ phase' = "closed"
    /\ lastCall' = [op |-> "Close", ret |-> "nil"]
    /\ UNCHANGED <<alive, routeChangeCallback, registered, nHandles,
                   unregisterCalls, nCloses, applied, invokedAfterClose>>
    /\ UNCHANGED lastSet
    /\ UNCHANGED <<detectVars, dnsVars, managerVars>>

\* The OS reports a route change: every registered callback is invoked.
\* It may happen at any position of a call in progress.
RouteChanged ==
    /\ alive
    /\ invokedAfterClose' =
         (invokedAfterClose \/ (phase = "closed" /\ registered # {}))
    /\ UNCHANGED <<alive, routeChangeCallback, registered, nHandles,
                   unregisterCalls, nCloses, pc, phase, lastCall, applied>>
    /\ UNCHANGED lastSet
    /\ UNCHANGED <<detectVars, dnsVars, managerVars>>

\* ------------------------------------------------------------------------
\* Backend detection
\* ------------------------------------------------------------------------

\* A line is the sequence of its tokens; a comment line starts with "#".
EmptyLine == <<>>
CommentLine == <<"#", "text">>
CommentResolvconf == <<"#", "Generated", "by", "resolvconf">>
NameserverStub == <<"nameserver", "127.0.0.53">>
NameserverOther == <<"nameserver", "10.0.0.1">>
NameserverBad == <<"nameserver", "text">>
SearchResolvconf == <<"search", "resolvconf">>

Lines == {EmptyLine, CommentLine, CommentResolvconf, NameserverStub,
          NameserverOther, NameserverBad, SearchResolvconf}

Files == UNION {[1..n -> Lines] : n \in 0..MaxLines}

\* outcomes of running a command: it could not be started, it exited with
\* a status, or a signal ended it (ExitCode() is then -1)
ProbeOutcomes ==
    {[kind |-> "start_failed", code |-> -1], [kind |-> "signaled", code |-> -1]}
        \cup {[kind |-> "exited", code |-> c] : c \in {0, 1, 99, 127}}

\* systemctl is-active exits 0 when active and 3 when not
IsActiveExits == {0, 3}

\* netaddr.IPv4: an address is its family and its bytes
IPv4(a, b, c, d) == [v |-> 4, addr |-> <<a, b, c, d>>]

\* var resolvedListenAddr = netaddr.IPv4(127, 0, 0, 53)
resolvedListenAddr == IPv4(127, 0, 0, 53)

\* netaddr.ParseIP on the address texts of the model
ParseIP(text) ==
    CASE text = "127.0.0.53" -> [ip |-> IPv4(127, 0, 0, 53), err |-> FALSE]
      [] text = "10.0.0.1"   -> [ip |-> IPv4(10, 0, 0, 1), err |-> FALSE]
      [] OTHER               -> [ip |-> IPv4(0, 0, 0, 0), err |-> TRUE]

\* dnsReadConfig: the nameservers of the resolver file in file order; an
\* unreadable file or an unparsable address is an error.
RECURSIVE ReadNameservers(_, _, _)
ReadNameservers(f, i, acc) ==
    IF i > Len(f) THEN [Nameservers |-> acc, err |-> FALSE]
    ELSE LET line == f[i] IN
         IF Len(line) > 0 /\ line[1] = "nameserver"
         THEN LET parsed == IF Len(line) > 1 THEN ParseIP(line[2])
                                             ELSE ParseIP("")
              IN  IF parsed.err THEN [Nameservers |-> <<>>, err |-> TRUE]
                  ELSE ReadNameservers(f, i + 1, Append(acc, parsed.ip))
         ELSE ReadNameservers(f, i + 1, acc)

dnsReadConfig ==
    IF ~fileOpenOk THEN [Nameservers |-> <<>>, err |-> TRUE]
    ELSE ReadNameservers(file, 1, <<>>)

\* bytes.Contains(line, "resolvconf")
Contains(line, word) == \E k \in 1..Len(line) : line[k] = word

\* A mutant of resolvedIsActive: only the first nameserver is compared,
\* the length of the list is not.
resolvedIsActiveFirstOnly ==
    IF ~systemctlBin THEN FALSE
    ELSE IF isActiveExit # 0 THEN FALSE
    ELSE LET config == dnsReadConfig IN
         IF config.err THEN FALSE
         ELSE Len(config.Nameservers) >= 1
                /\ config.Nameservers[1] = resolvedListenAddr

\* A mutant of resolvedIsActive: the outcome of is-active is not looked at.
resolvedIsActiveUnchecked ==
    IF ~systemctlBin THEN FALSE
    ELSE LET config == dnsReadConfig IN
         IF config.err THEN FALSE
         ELSE Len(config.Nameservers) = 1
                /\ config.Nameservers[1] = resolvedListenAddr

\* resolvedIsActive
resolvedIsActive ==
    IF ~systemctlBin THEN FALSE
    ELSE IF isActiveExit # 0 THEN FALSE
    ELSE LET config == dnsReadConfig IN
         IF config.err THEN FALSE
         ELSE Len(config.Nameservers) = 1
                /\ config.Nameservers[1] = resolvedListenAddr

\* A mutant of the scan: it does not stop at the first non-comment line.
RECURSIVE ScanAllLines(_, _)
ScanAllLines(f, i) ==
    IF i > Len(f) THEN FALSE
    ELSE IF Contains(f[i], "resolvconf") THEN TRUE
    ELSE ScanAllLines(f, i + 1)

\* resolvconfIsActive, the scanner loop from line i on
RECURSIVE ScanComments(_, _)
ScanComments(f, i) ==
    IF i > Len(f) THEN FALSE
    ELSE LET line == f[i] IN
         IF Len(line) > 0 /\ line[1] # "#" THEN FALSE
         ELSE IF Contains(line, "resolvconf") THEN TRUE
         ELSE ScanComments(f, i + 1)

\* resolvconfIsActive
resolvconfIsActive ==
    IF ~resolvconfBin THEN FALSE
    ELSE IF ~fileOpenOk THEN FALSE
    ELSE ScanComments(file, 1)

\* A mutant of getResolvconfImplementation: any exit error is taken for
\* the legacy implementation.
getResolvconfImplementationAnyExit(p) ==
    LET failed == ~(p.kind = "exited" /\ p.code = 0)
        isExitErr == p.kind \in {"exited", "signaled"}
    IN  IF failed /\ isExitErr
        THEN "resolvconfLegacy" ELSE "resolvconfOpenresolv"

\* getResolvconfImplementation on the outcome p of `resolvconf -v`
getResolvconfImplementation(p) ==
    LET failed == ~(p.kind = "exited" /\ p.code = 0)
        isExitErr == p.kind \in {"exited", "signaled"}
    IN  IF failed /\ isExitErr /\ p.code = 99
        THEN "resolvconfLegacy" ELSE "resolvconfOpenresolv"

BackendKinds == {"direct", "resolvconf-openresolv", "resolvconf-legacy",
                 "resolved"}

\* The Detector: resolved first, then resolvconf (with the implementation
\* the probe shows), then direct.
DetectBackend ==
    IF resolvedIsActive THEN "resolved"
    ELSE IF resolvconfIsActive
         THEN IF getResolvconfImplementation(probe) = "resolvconfLegacy"
              THEN "resolvconf-legacy" ELSE "resolvconf-openresolv"
    ELSE "direct"

\* the probes are idle: the state of the detection variables in the
\* specifications that are not about detection
DetectIdle ==
    /\ systemctlBin = FALSE
    /\ isActiveExit = 3
    /\ resolvconfBin = FALSE
    /\ fileOpenOk = TRUE
    /\ file = <<>>
    /\ probe = [kind |-> "start_failed", code |-> -1]
    /\ dPc = "input"
    /\ resolvedActive = FALSE
    /\ resolvconfActive = FALSE
    /\ implementation = "none"
    /\ backend = "none"

DetectInit ==
    /\ systemctlBin \in BOOLEAN
    /\ isActiveExit \in IsActiveExits
    /\ resolvconfBin \in BOOLEAN
    /\ fileOpenOk \in BOOLEAN
    /\ file \in Files
    /\ probe \in ProbeOutcomes
    /\ dPc = "input"
    /\ resolvedActive = FALSE
    /\ resolvconfActive = FALSE
    /\ implementation = "none"
    /\ backend = "none"

\* one detection, on the system as it is
Detect ==
    /\ dPc = "input"
    /\ resolvedActive' = resolvedIsActive
    /\ resolvconfActive' = resolvconfIsActive
    /\ implementation' = getResolvconfImplementation(probe)
    /\ backend' = DetectBackend
    /\ dPc' = "done"
    /\ UNCHANGED <<systemctlBin, isActiveExit, resolvconfBin, fileOpenOk,
                   file, probe>>
    /\ UNCHANGED <<routerVars, dnsVars, managerVars>>

\* ------------------------------------------------------------------------
\* DNS appliers
\* ------------------------------------------------------------------------

\* unix.AF_INET, unix.AF_INET6
AF_INET == 2
AF_INET6 == 10

\* iface.Index of the tunnel interface, when it exists
TunIndex == 7

\* const resolvconfConfigName = "tun-tailscale.inet"
resolvconfConfigName == "tun-tailscale.inet"

\* the record of another interface, submitted by somebody else
otherRecordName == "eth0.dhcp"

RecordNames == {resolvconfConfigName, otherRecordName}

ns4 == IPv4(100, 100, 100, 100)

ns6 == [v |-> 6,
        addr |-> <<253, 122, 17, 92, 161, 224, 0, 0, 0, 0, 0, 0, 0, 0, 0, 1>>]

EmptyConfig == [Nameservers |-> <<>>, Domains |-> <<>>]

DNSConfigs == [Nameservers : {<<>>, <<ns4>>, <<ns4, ns6>>},
               Domains : {<<>>, <<"corp.example">>}]

\* netaddr.IP.Is4
Is4(ip) == ip.v = 4

\* netaddr.IP.As16: an IPv4 address becomes its IPv4-mapped IPv6 form
As16(ip) ==
    IF ip.v = 4
    THEN <<0, 0, 0, 0, 0, 0, 0, 0, 0, 0, 255, 255>> \o ip.addr
    ELSE ip.addr

\* dnsWriteConfig: one nameserver line per server, then one search line
dnsWriteConfig(nameservers, domains) ==
    [i \in 1..Len(nameservers) |-> <<"nameserver", nameservers[i]>>]
        \o (IF Len(domains) > 0 THEN <<(<<"search">> \o domains)>> ELSE <<>>)

\* A mutant of the encoding: the 16-byte form of an IPv4 address is sent
\* whole, not its last four bytes.
linkNameserversUncut(config) ==
    [i \in 1..Len(config.Nameservers) |->
        LET server == config.Nameservers[i]
            ip == As16(server)
        IN  IF Is4(server)
            THEN [Family |-> AF_INET, Address |-> ip]
            ELSE [Family |-> AF_INET6, Address |-> ip]]

\* dnsResolvedUp, the loop over config.Nameservers
linkNameservers(config) ==
    [i \in 1..Len(config.Nameservers) |->
        LET server == config.Nameservers[i]
            ip == As16(server)
        IN  IF Is4(server)
            THEN [Family |-> AF_INET, Address |-> SubSeq(ip, 13, 16)]
            ELSE [Family |-> AF_INET6, Address |-> ip]]

\* dnsResolvedUp, the loop over config.Domains
linkDomains(config) ==
    [i \in 1..Len(config.Domains) |->
        [Domain |-> config.Domains[i], RoutingOnly |-> FALSE]]

EmptyLink == [dns |-> <<>>, domains |-> <<>>]

AbsentRecord == [present |-> FALSE, content |-> <<>>, exclusive |-> FALSE,
                 metric |-> "none"]

OtherRecord == [present |-> TRUE,
                content |-> dnsWriteConfig(<<IPv4(10, 0, 0, 1)>>, <<>>),
                exclusive |-> FALSE, metric |-> "none"]

ResolvconfCalls == {"dnsResolvconfUp", "dnsResolvconfDown"}
ResolvedCalls == {"dnsResolvedUp", "dnsResolvedDown"}

\* the child operations that are made with the timeout context
BusPcs == {"SetLinkDNS", "SetLinkDomains", "RevertLink"}

Ret(v, at) == [v |-> v, at |-> at]

\* the resolvconf implementations
Tools == {"openresolv", "legacy"}

\* no successful Up is behind us
NoRun == [fam |-> "none", downs |-> 0]

DnsInitCommon ==
    /\ aCall = "none"
    /\ aPc = "idle"
    /\ aCfg = EmptyConfig
    /\ aImpl = "none"
    /\ childState = "none"
    /\ ctxExpired = FALSE
    /\ aRet = Ret("none", "none")
    /\ busCalls = <<>>
    /\ argv = <<>>
    /\ records = [n \in RecordNames |->
                    IF n = otherRecordName THEN OtherRecord ELSE AbsentRecord]
    /\ link = EmptyLink
    /\ fault = FALSE
    /\ run = NoRun
    /\ pre = [records |-> records, link |-> link, ret |-> "none"]

\* the appliers are idle: the state of their variables in the
\* specifications that are not about them
DnsIdle == DnsInitCommon /\ iface = "present" /\ tool = "openresolv"

DnsInit ==
    /\ DnsInitCommon
    /\ iface \in {"absent", "present"}
    /\ tool \in Tools

UpCalls == {"dnsResolvconfUp", "dnsResolvedUp"}
DownCalls == {"dnsResolvconfDown", "dnsResolvedDown"}

\* the mechanism a call drives
Family(call) == IF call \in ResolvconfCalls THEN "resolvconf" ELSE "resolved"

\* the calls in a row, the call that has just returned included: a
\* successful Up starts a run, each successful Down of the same mechanism
\* after it is counted, anything else ends the run
NextRun ==
    IF aRet.v # "nil" THEN NoRun
    ELSE IF aCall \in UpCalls THEN [fam |-> Family(aCall), downs |-> 0]
    ELSE IF run.fam = Family(aCall)
         THEN [run EXCEPT !.downs = IF @ < MaxDowns THEN @ + 1 ELSE MaxDowns]
         ELSE NoRun

\* a call is entered: its first child operation is started
Enter(call, config, firstPc) ==
    /\ aCall' = call
    /\ aCfg' = config
    /\ aImpl' = "none"
    /\ aPc' = firstPc
    /\ childState' = "running"
    /\ ctxExpired' = FALSE
    /\ aRet' = Ret("pending", "none")
    /\ busCalls' = <<>>
    /\ fault' = FALSE
    /\ pre' = [records |-> records, link |-> link, ret |-> aRet.v]
    /\ run' = NextRun
    /\ argv' = <<>>
    /\ UNCHANGED <<records, link, iface, tool>>
    /\ UNCHANGED <<routerVars, detectVars, managerVars>>

\* the call returns v; at names the step that failed
Return(v, at) ==
    /\ aPc' = "idle"
    /\ childState' = "none"
    /\ aRet' = Ret(v, at)

\* dnsResolvconfUp, up to the probe `resolvconf -v` (Run, no context)
dnsResolvconfUp ==
    /\ aPc = "idle"
    /\ \E config \in DNSConfigs : Enter("dnsResolvconfUp", config, "probe")

\* dnsResolvconfDown, up to the probe `resolvconf -v` (Run, no context)
dnsResolvconfDown ==
    /\ aPc = "idle"
    /\ Enter("dnsResolvconfDown", EmptyConfig, "probe")

\* dnsResolvedUp, up to dbus.SystemBus() (no context)
dnsResolvedUp ==
    /\ aPc = "idle"
    /\ \E config \in DNSConfigs : Enter("dnsResolvedUp", config, "connect")

\* dnsResolvedDown, up to dbus.SystemBus() (no context)
dnsResolvedDown ==
    /\ aPc = "idle"
    /\ Enter("dnsResolvedDown", EmptyConfig, "connect")

\* A mutant of the command lines: openresolv's withdrawal is not forced.
ResolvconfArgvNotForced(call, impl) ==
    IF call = "dnsResolvconfUp"
    THEN IF impl = "resolvconfOpenresolv"
         THEN <<"resolvconf", "-m", "0", "-x", "-a", resolvconfConfigName>>
         ELSE <<"resolvconf", "-a", resolvconfConfigName>>
    ELSE <<"resolvconf", "-d", resolvconfConfigName>>

\* A mutant of the command lines: the withdrawal is forced on the legacy
\* implementation as well.
ResolvconfArgvAlwaysForced(call, impl) ==
    IF call = "dnsResolvconfUp"
    THEN IF impl = "resolvconfOpenresolv"
         THEN <<"resolvconf", "-m", "0", "-x", "-a", resolvconfConfigName>>
         ELSE <<"resolvconf", "-a", resolvconfConfigName>>
    ELSE <<"resolvconf", "-f", "-d", resolvconfConfigName>>

\* A mutant of the command lines: openresolv's record is submitted without
\* the exclusive flag.
ResolvconfArgvNotExclusive(call, impl) ==
    IF call = "dnsResolvconfUp"
    THEN IF impl = "resolvconfOpenresolv"
         THEN <<"resolvconf", "-m", "0", "-a", resolvconfConfigName>>
         ELSE <<"resolvconf", "-a", resolvconfConfigName>>
    ELSE IF impl = "resolvconfOpenresolv"
         THEN <<"resolvconf", "-f", "-d", resolvconfConfigName>>
         ELSE <<"resolvconf", "-d", resolvconfConfigName>>

\* the command line the call runs for the implementation it detected
ResolvconfArgv(call, impl) ==
    IF call = "dnsResolvconfUp"
    THEN IF impl = "resolvconfOpenresolv"
         THEN <<"resolvconf", "-m", "0", "-x", "-a", resolvconfConfigName>>
         ELSE <<"resolvconf", "-a", resolvconfConfigName>>
    ELSE IF impl = "resolvconfOpenresolv"
         THEN <<"resolvconf", "-f", "-d", resolvconfConfigName>>
         ELSE <<"resolvconf", "-d", resolvconfConfigName>>

\* what a resolvconf command that succeeds does to the records: -a
\* submits the record named last with the given content, -d withdraws it
ResolvconfEffect(args, stdin) ==
    LET name == args[Len(args)]
        has(flag) == \E k \in 1..Len(args) : args[k] = flag
    IN  IF has("-a")
        THEN [records EXCEPT ![name] =
                [present |-> TRUE, content |-> stdin,
                 exclusive |-> has("-x"),
                 metric |-> IF has("-m") THEN "0" ELSE "none"]]
        ELSE [records EXCEPT ![name] = AbsentRecord]

\* what `resolvconf -v` does when it runs: the legacy tool exits with 99
\* on the flag it does not know, openresolv prints its variables
ToolProbe(t) ==
    IF t = "legacy" THEN [kind |-> "exited", code |-> 99]
                    ELSE [kind |-> "exited", code |-> 0]

\* the probe did not run to its end: not started, or ended by a signal
ProbeFaults ==
    {[kind |-> "start_failed", code |-> -1], [kind |-> "signaled", code |-> -1]}

\* the flags each implementation knows
KnownFlags(t) ==
    IF t = "legacy" THEN {"-a", "-d"} ELSE {"-a", "-d", "-m", "-x", "-f"}

\* the exit status of a resolvconf command.  An unknown flag is refused
\* with 99.  Withdrawing a record that does not exist succeeds on the
\* legacy tool; on openresolv it succeeds only when forced with -f.
ToolExit(t, args) ==
    LET name == args[Len(args)]
        has(flag) == \E k \in 1..Len(args) : args[k] = flag
        flags == {f \in {"-a", "-d", "-m", "-x", "-f"} : has(f)}
    IN  IF ~(flags \subseteq KnownFlags(t)) THEN 99
        ELSE IF has("-d") /\ ~records[name].present
                /\ t = "openresolv" /\ ~has("-f") THEN 1
        ELSE 0

\* getResolvconfImplementation returns; the command is started
\* (CombinedOutput, no context)
ProbeReturns ==
    /\ aPc = "probe" /\ childState = "running"
    /\ \E p \in {ToolProbe(tool)} \cup ProbeFaults :
        /\ aImpl' = getResolvconfImplementation(p)
        /\ argv' = ResolvconfArgv(aCall, aImpl')
        /\ fault' = (p \in ProbeFaults)
    /\ aPc' = "exec"
    /\ UNCHANGED <<aCall, aCfg, childState, ctxExpired, aRet, busCalls,
                   records, link, iface, tool, pre, run>>
    /\ UNCHANGED <<routerVars, detectVars, managerVars>>

\* cmd.CombinedOutput returns, and the call with it: the command exits
\* with the status the tool gives it, or it breaks on its own account
ResolvconfExits ==
    /\ aPc = "exec" /\ childState = "running"
    /\ \E broken \in BOOLEAN :
        /\ fault' = (fault \/ broken)
        /\ IF ~broken /\ ToolExit(tool, argv) = 0
           THEN /\ records' = ResolvconfEffect(argv,
                       dnsWriteConfig(aCfg.Nameservers, aCfg.Domains))
                /\ Return("nil", "return")
           ELSE /\ records' = records
                /\ Return("err", "exec")
    /\ UNCHANGED <<aCall, aCfg, aImpl, ctxExpired, busCalls, argv, link,
                   iface, tool, pre, run>>
    /\ UNCHANGED <<routerVars, detectVars, managerVars>>

BusCall(method, arg) == [method |-> method, index |-> TunIndex, arg |-> arg]

\* A mutant of the interface lookup: a lookup that finds no interface is
\* not told apart from one that finds it.
SystemBusReturnsWithoutNilCheck ==
    /\ aPc = "connect" /\ childState = "running"
    /\ \E ok \in BOOLEAN :
        /\ fault' = (fault \/ ~ok)
        /\ IF ~ok THEN Return("err", "connect") /\ busCalls' = busCalls
           ELSE IF iface = "lookup_err"
                THEN Return("err", "interface") /\ busCalls' = busCalls
           ELSE IF aCall = "dnsResolvedUp"
                THEN /\ busCalls' = <<BusCall("SetLinkDNS",
                                              linkNameservers(aCfg))>>
                     /\ aPc' = "SetLinkDNS"
                     /\ UNCHANGED <<childState, aRet>>
                ELSE /\ busCalls' = <<BusCall("RevertLink", <<>>)>>
                     /\ aPc' = "RevertLink"
                     /\ UNCHANGED <<childState, aRet>>
    /\ UNCHANGED <<aCall, aCfg, aImpl, ctxExpired, argv, records, link,
                   iface, tool, pre, run>>
    /\ UNCHANGED <<routerVars, detectVars, managerVars>>

\* A mutant of Down: it clears the nameservers and the domains with the
\* two calls of Up instead of reverting the link.
SystemBusReturnsDownClearsDNS ==
    /\ aPc = "connect" /\ childState = "running"
    /\ \E ok \in BOOLEAN :
        /\ fault' = (fault \/ ~ok)
        /\ IF ~ok THEN Return("err", "connect") /\ busCalls' = busCalls
           ELSE IF iface = "lookup_err"
                THEN Return("err", "interface") /\ busCalls' = busCalls
           ELSE IF iface = "absent"
                THEN Return("errNotReady", "interface") /\ busCalls' = busCalls
           ELSE IF aCall = "dnsResolvedUp"
                THEN /\ busCalls' = <<BusCall("SetLinkDNS",
                                              linkNameservers(aCfg))>>
                     /\ aPc' = "SetLinkDNS"
                     /\ UNCHANGED <<childState, aRet>>
                ELSE /\ busCalls' = <<BusCall("SetLinkDNS", <<>>)>>
                     /\ aPc' = "SetLinkDNS"
                     /\ UNCHANGED <<childState, aRet>>
    /\ UNCHANGED <<aCall, aCfg, aImpl, ctxExpired, argv, records, link,
                   iface, tool, pre, run>>
    /\ UNCHANGED <<routerVars, detectVars, managerVars>>

\* dbus.SystemBus() returns; then interfaces.Tailscale(), and the first
\* CallWithContext is issued
SystemBusReturns ==
    /\ aPc = "connect" /\ childState = "running"
    /\ \E ok \in BOOLEAN :
        /\ fault' = (fault \/ ~ok)
        /\ IF ~ok THEN Return("err", "connect") /\ busCalls' = busCalls
           ELSE IF iface = "lookup_err"
                THEN Return("err", "interface") /\ busCalls' = busCalls
           ELSE IF iface = "absent"
                THEN Return("errNotReady", "interface") /\ busCalls' = busCalls
           ELSE IF aCall = "dnsResolvedUp"
                THEN /\ busCalls' = <<BusCall("SetLinkDNS",
                                              linkNameservers(aCfg))>>
                     /\ aPc' = "SetLinkDNS"
                     /\ UNCHANGED <<childState, aRet>>
                ELSE /\ busCalls' = <<BusCall("RevertLink", <<>>)>>
                     /\ aPc' = "RevertLink"
                     /\ UNCHANGED <<childState, aRet>>
    /\ UNCHANGED <<aCall, aCfg, aImpl, ctxExpired, argv, records, link,
                   iface, tool, pre, run>>
    /\ UNCHANGED <<routerVars, detectVars, managerVars>>

\* what a bus method call that is carried out does to the link
BusEffect(call) ==
    CASE call.method = "SetLinkDNS"     -> [link EXCEPT !.dns = call.arg]
      [] call.method = "SetLinkDomains" -> [link EXCEPT !.domains = call.arg]
      [] OTHER                          -> EmptyLink

\* A mutant of Up: the error of SetLinkDNS is not looked at.
BusCallReturnsIgnoringError ==
    /\ aPc \in BusPcs /\ childState = "running"
    /\ \E ok \in BOOLEAN :
        /\ fault' = (fault \/ ~ok)
        /\ IF ~ok
           THEN /\ link' = link
                /\ IF aPc = "SetLinkDNS"
                   THEN /\ busCalls' = Append(busCalls,
                               BusCall("SetLinkDomains", linkDomains(aCfg)))
                        /\ aPc' = "SetLinkDomains"
                        /\ UNCHANGED <<childState, aRet>>
                   ELSE /\ Return("err", aPc)
                        /\ busCalls' = busCalls
           ELSE /\ link' = BusEffect(busCalls[Len(busCalls)])
                /\ IF aPc = "SetLinkDNS"
                   THEN /\ busCalls' = Append(busCalls,
                               BusCall("SetLinkDomains", linkDomains(aCfg)))
                        /\ aPc' = "SetLinkDomains"
                        /\ UNCHANGED <<childState, aRet>>
                   ELSE /\ Return("nil", "return")
                        /\ busCalls' = busCalls
    /\ UNCHANGED <<aCall, aCfg, aImpl, ctxExpired, argv, records, iface,
                   tool, pre, run>>
    /\ UNCHANGED <<routerVars, detectVars, managerVars>>

\* a CallWithContext returns before the deadline
BusCallReturns ==
    /\ aPc \in BusPcs /\ childState = "running"
    /\ \E ok \in BOOLEAN :
        /\ fault' = (fault \/ ~ok)
        /\ IF ~ok
           THEN /\ Return("err", aPc)
                /\ UNCHANGED <<busCalls, link>>
           ELSE /\ link' = BusEffect(busCalls[Len(busCalls)])
                /\ IF aPc = "SetLinkDNS"
                   THEN /\ busCalls' = Append(busCalls,
                               BusCall("SetLinkDomains", linkDomains(aCfg)))
                        /\ aPc' = "SetLinkDomains"
                        /\ UNCHANGED <<childState, aRet>>
                   ELSE /\ Return("nil", "return")
                        /\ busCalls' = busCalls
    /\ UNCHANGED <<aCall, aCfg, aImpl, ctxExpired, argv, records, iface,
                   tool, pre, run>>
    /\ UNCHANGED <<routerVars, detectVars, managerVars>>

\* the child operation in flight will never respond
ChildHangs ==
    /\ aPc # "idle" /\ childState = "running"
    /\ childState' = "hung"
    /\ UNCHANGED <<aCall, aPc, aCfg, aImpl, ctxExpired, aRet, busCalls, argv,
                   records, link, iface, tool, fault, pre, run>>
    /\ UNCHANGED <<routerVars, detectVars, managerVars>>

\* dnsReconfigTimeout has passed since the call made its context
DeadlineFires ==
    /\ aCall \in ResolvedCalls /\ aPc # "idle"
    /\ ~ctxExpired
    /\ ctxExpired' = TRUE
    /\ fault' = TRUE
    /\ UNCHANGED <<aCall, aPc, aCfg, aImpl, childState, aRet, busCalls, argv,
                   records, link, iface, tool, pre, run>>
    /\ UNCHANGED <<routerVars, detectVars, managerVars>>

\* a CallWithContext whose context has expired returns the context's
\* error; the message was sent, and the service may have acted on it
CtxCancels ==
    /\ aPc \in BusPcs /\ ctxExpired
    /\ \E acted \in BOOLEAN :
        link' = IF acted THEN BusEffect(busCalls[Len(busCalls)]) ELSE link
    /\ Return("err", aPc)
    /\ UNCHANGED <<aCall, aCfg, aImpl, ctxExpired, busCalls, argv, records,
                   iface, tool, fault, pre, run>>
    /\ UNCHANGED <<routerVars, detectVars, managerVars>>

\* the tunnel interface appears, disappears, or its lookup starts failing
IfaceChanges ==
    /\ \E v \in {"absent", "present", "lookup_err"} \ {iface} : iface' = v
    /\ UNCHANGED <<aCall, aPc, aCfg, aImpl, childState, ctxExpired, aRet,
                   busCalls, argv, records, link, tool, fault, pre, run>>
    /\ UNCHANGED <<routerVars, detectVars, managerVars>>

DnsNext ==
    \/ dnsResolvconfUp
    \/ dnsResolvconfDown
    \/ dnsResolvedUp
    \/ dnsResolvedDown
    \/ ProbeReturns
    \/ ResolvconfExits
    \/ SystemBusReturns
    \/ BusCallReturns
    \/ ChildHangs
    \/ DeadlineFires
    \/ CtxCancels
    \/ IfaceChanges

\* ------------------------------------------------------------------------
\* DNS Manager
\* ------------------------------------------------------------------------

\* the manager has made no call: the state of its variables in the
\* specifications that are not about it
ManagerIdle ==
    /\ mOp = "none"
    /\ mBackend = "none"
    /\ mUpBackend = "none"
    /\ mApplier = "none"

\* resolver files of a system owned by resolved, by resolved under a
\* comment of resolvconf, by resolvconf, and by nobody
ManagerFiles ==
    {<<NameserverStub>>, <<CommentResolvconf, NameserverStub>>,
     <<CommentResolvconf, NameserverOther>>, <<NameserverOther>>}

\* what `resolvconf -v` exits with on openresolv and on the legacy tool
ManagerProbes == {ToolProbe(t) : t \in Tools}

\* the systems the manager may find itself on
ManagerEnv(sb, ax, rb, fo, f, p) ==
    /\ sb \in BOOLEAN
    /\ ax \in IsActiveExits
    /\ rb \in BOOLEAN
    /\ fo \in BOOLEAN
    /\ f \in ManagerFiles
    /\ p \in ManagerProbes

ManagerInit ==
    /\ ManagerIdle
    /\ ManagerEnv(systemctlBin, isActiveExit, resolvconfBin, fileOpenOk,
                  file, probe)
    /\ dPc = "input"
    /\ resolvedActive = FALSE
    /\ resolvconfActive = FALSE
    /\ implementation = "none"
    /\ backend = "none"

\* the applier functions of a backend
UpApplier(b) ==
    CASE b = "resolved" -> "dnsResolvedUp"
      [] b \in {"resolvconf-openresolv", "resolvconf-legacy"}
                        -> "dnsResolvconfUp"
      [] OTHER          -> "dnsDirectUp"

DownApplier(b) ==
    CASE b = "resolved" -> "dnsResolvedDown"
      [] b \in {"resolvconf-openresolv", "resolvconf-legacy"}
                        -> "dnsResolvconfDown"
      [] OTHER          -> "dnsDirectDown"

\* Up(config): detect, then the Up of the detected backend's applier
ManagerUp ==
    /\ mOp' = "Up"
    /\ mBackend' = DetectBackend
    /\ mUpBackend' = DetectBackend
    /\ mApplier' = UpApplier(DetectBackend)
    /\ UNCHANGED <<routerVars, detectVars, dnsVars>>

\* A mutant of Down: the backend of the preceding Up is remembered.
ManagerDownRemembering ==
    /\ mOp' = "Down"
    /\ mBackend' = IF mUpBackend = "none" THEN DetectBackend ELSE mUpBackend
    /\ mApplier' = DownApplier(mBackend')
    /\ UNCHANGED mUpBackend
    /\ UNCHANGED <<routerVars, detectVars, dnsVars>>

\* Down(): detect again, then the Down of the detected backend's applier
ManagerDown ==
    /\ mOp' = "Down"
    /\ mBackend' = DetectBackend
    /\ mApplier' = DownApplier(DetectBackend)
    /\ UNCHANGED mUpBackend
    /\ UNCHANGED <<routerVars, detectVars, dnsVars>>

\* another program changes the system between two calls of the manager
EnvChanges ==
    /\ ManagerEnv(systemctlBin', isActiveExit', resolvconfBin', fileOpenOk',
                  file', probe')
    /\ <<systemctlBin', isActiveExit', resolvconfBin', fileOpenOk', file',
         probe'>>
          # <<systemctlBin, isActiveExit, resolvconfBin, fileOpenOk, file,
              probe>>
    /\ UNCHANGED <<dPc, resolvedActive, resolvconfActive, implementation,
                   backend>>
    /\ UNCHANGED <<routerVars, dnsVars, managerVars>>

ManagerNext ==
    \/ ManagerUp
    \/ ManagerDown
    \/ EnvChanges

RouterNext ==
    \/ Up
    \/ Set
    \/ CloseBegin
    \/ CloseUnregister
    \/ CloseReturn
    \/ RouteChanged

vars == <<routerVars, detectVars, dnsVars, managerVars>>

\* The Router
Init == RouterInit /\ DetectIdle /\ DnsIdle /\ ManagerIdle

Next == RouterNext

Spec == Init /\ [][Next]_vars

\* Backend detection, on every system the bounds allow
InitDetect == RouterInit /\ DetectInit /\ DnsIdle /\ ManagerIdle

NextDetect == Detect

SpecDetect == InitDetect /\ [][NextDetect]_vars

\* The DNS appliers, one call at a time
InitDns == RouterInit /\ DetectIdle /\ DnsInit /\ ManagerIdle

NextDns == DnsNext

SpecDns == InitDns /\ [][NextDns]_vars

\* The DNS Manager, on a system that other programs change
InitManager == RouterInit /\ ManagerInit /\ DnsIdle

NextManager == ManagerNext

SpecManager == InitManager /\ [][NextManager]_vars

\* ------------------------------------------------------------------------
\* Claims about the Router
\* ------------------------------------------------------------------------

\* C1: whatever the sequence of Close calls, no handle is handed to
\* Unregister more than once: once Close has returned, the stored handle has
\* been unregistered exactly once; every Close returns nil; and a Router
\* that never registered anything unregisters nothing.
C1_UnregisteredExactlyOnce ==
    /\ \A h \in Handles : unregisterCalls[h] <= 1
    /\ (phase = "closed" /\ routeChangeCallback # Nil)
          => unregisterCalls[routeChangeCallback] = 1
    /\ lastCall.op = "Close" => lastCall.ret = "nil"
    /\ nHandles = 0 => \A h \in Handles : unregisterCalls[h] = 0

\* C2: when the registration inside Up fails, Up returns an error to its
\* caller: the process is still running, the result is an error and not
\* success, and no handle is stored.
C2_RegistrationFailureReturned ==
    (lastCall.op = "Up" /\ lastCall.ret # "nil")
        => /\ alive
           /\ lastCall.ret = "err"
           /\ routeChangeCallback = Nil

\* C3: once Close has returned (and no Up has followed it), no callback
\* registered by this Router is invoked any more.
C3_NoCallbackAfterClose == ~invokedAfterClose

\* C4: from the successful return of Up until Close is called, whatever
\* Set calls happen in between, the stored handle's callback is registered
\* with the OS.
C4_ArmedWhileUp ==
    (alive /\ phase = "up")
        => /\ routeChangeCallback # Nil
           /\ routeChangeCallback \in registered

\* C4 witness: Up has succeeded, a Set has run since, and the monitor is
\* still armed.
C4_Witness ==
    /\ alive /\ phase = "up"
    /\ lastCall.op = "Set"
    /\ applied.routes # {}
    /\ routeChangeCallback \in registered

\* ------------------------------------------------------------------------
\* Claims about backend detection
\* ------------------------------------------------------------------------

ResolvconfKinds == {"resolvconf-openresolv", "resolvconf-legacy"}

\* the service manager could be asked and reports the service active
ServiceReportedActive == systemctlBin /\ isActiveExit = 0

\* the positions of the resolver file's nameserver lines
NameserverLines ==
    {i \in DOMAIN file : Len(file[i]) > 0 /\ file[i][1] = "nameserver"}

\* the resolver file can be read and its only nameserver is 127.0.0.53
SoleNameserverIsStub ==
    /\ fileOpenOk
    /\ Cardinality(NameserverLines) = 1
    /\ \A i \in NameserverLines : file[i] = NameserverStub

\* a line that is not empty and does not start with "#"
NonComment(line) == Len(line) > 0 /\ line[1] # "#"

\* the position of the first non-comment line, or one past the last line
FirstNonComment ==
    IF \E i \in DOMAIN file : NonComment(file[i])
    THEN CHOOSE i \in DOMAIN file :
            NonComment(file[i]) /\ \A j \in 1..(i - 1) : ~NonComment(file[j])
    ELSE Len(file) + 1

\* some line before the first non-comment line mentions "resolvconf"
LeadingCommentsMention ==
    \E i \in 1..(FirstNonComment - 1) : Contains(file[i], "resolvconf")

\* C6: resolved is selected exactly when the service manager reports the
\* service active and the resolver file's nameserver list is the single
\* address 127.0.0.53; an empty list, another single nameserver, or the
\* stub address with more nameservers does not select it.
C6_ResolvedIffSoleStub ==
    dPc = "done" =>
        /\ (backend = "resolved")
              <=> (ServiceReportedActive /\ SoleNameserverIsStub)
        /\ resolvedActive = (backend = "resolved")

\* C6 witness: the service is active, the file holds comments and the stub
\* address as its only nameserver, and resolved has been selected.
C6_Witness ==
    /\ dPc = "done"
    /\ ServiceReportedActive
    /\ Len(file) > 1
    /\ SoleNameserverIsStub
    /\ backend = "resolved"

\* C7: resolvconf is detected as active exactly when the binary is
\* installed and a line before the first non-comment line of the (readable)
\* resolver file mentions "resolvconf" (an empty line does not end the
\* comment block); a mention on or after the first non-comment line does
\* not count, and "# Generated by resolvconf / nameserver 10.0.0.1" with the
\* binary present is detected.
C7_ResolvconfIffLeadingComment ==
    dPc = "done" =>
        /\ resolvconfActive
              <=> (resolvconfBin /\ fileOpenOk /\ LeadingCommentsMention)
        /\ (resolvconfBin /\ fileOpenOk
              /\ file = <<CommentResolvconf, NameserverOther>>)
              => (resolvconfActive /\ backend \in ResolvconfKinds)

\* C7 witness: the scenario file with the binary present is detected as
\* resolvconf.
C7_Witness ==
    /\ dPc = "done"
    /\ resolvconfBin /\ fileOpenOk
    /\ file = <<CommentResolvconf, NameserverOther>>
    /\ resolvconfActive
    /\ backend \in ResolvconfKinds

\* C8, as stated: when the first non-comment line does not mention
\* "resolvconf", resolvconf is not selected, whatever the comments say.
C8_FirstNonCommentDecides ==
    (/\ dPc = "done"
     /\ FirstNonComment <= Len(file)
     /\ ~Contains(file[FirstNonComment], "resolvconf"))
        => backend \notin ResolvconfKinds

\* C8, amended: when no line before the first non-comment line mentions
\* "resolvconf", resolvconf is not selected, whatever the first non-comment
\* line and the lines after it say.
C8_LeadingCommentsDecide ==
    (dPc = "done" /\ ~LeadingCommentsMention)
        => (~resolvconfActive /\ backend \notin ResolvconfKinds)

\* C8 witness: the binary is there and the first non-comment line mentions
\* "resolvconf", the comments before it do not, and resolvconf is not
\* selected.
C8_Witness ==
    /\ dPc = "done"
    /\ resolvconfBin /\ fileOpenOk
    /\ FirstNonComment <= Len(file)
    /\ FirstNonComment > 1
    /\ Contains(file[FirstNonComment], "resolvconf")
    /\ ~LeadingCommentsMention
    /\ backend \notin ResolvconfKinds

\* the resolver file cannot be read or holds an unparsable nameserver
ReadConfigFails ==
    ~fileOpenOk \/ \E i \in DOMAIN file : file[i] = NameserverBad

\* C9: detection always ends with exactly one backend, chosen in the order
\* resolved, resolvconf, direct; a probe that fails counts as not active,
\* and direct is chosen when neither of the others is active.
C9_DetectionTotal ==
    dPc = "done" =>
        /\ backend \in BackendKinds
        /\ (backend = "resolved") <=> resolvedActive
        /\ (backend \in ResolvconfKinds)
              <=> (~resolvedActive /\ resolvconfActive)
        /\ (backend = "direct") <=> (~resolvedActive /\ ~resolvconfActive)
        /\ (~systemctlBin \/ isActiveExit # 0 \/ ReadConfigFails)
              => ~resolvedActive
        /\ (~resolvconfBin \/ ~fileOpenOk) => ~resolvconfActive
        /\ ((~systemctlBin \/ isActiveExit # 0 \/ ReadConfigFails)
              /\ (~resolvconfBin \/ ~fileOpenOk)) => backend = "direct"

\* C9 witness: the service query fails and the resolver file cannot be
\* opened although it would name resolvconf, and direct is chosen.
C9_Witness ==
    /\ dPc = "done"
    /\ systemctlBin /\ isActiveExit # 0
    /\ resolvconfBin /\ ~fileOpenOk
    /\ Len(file) > 0 /\ file[1] = CommentResolvconf
    /\ backend = "direct"

\* C10: the implementation is the legacy one exactly when the probe exited
\* with status 99; exit 0, any other status, a signal, or a probe that could
\* not be started give openresolv.
C10_ClassifiedByExit99 ==
    dPc = "done" =>
        /\ implementation \in {"resolvconfLegacy", "resolvconfOpenresolv"}
        /\ (implementation = "resolvconfLegacy")
              <=> (probe.kind = "exited" /\ probe.code = 99)

\* C10 witness: a probe that exited with 127 has been classified as
\* openresolv.
C10_Witness ==
    /\ dPc = "done"
    /\ probe.kind = "exited" /\ probe.code = 127
    /\ implementation = "resolvconfOpenresolv"

\* ------------------------------------------------------------------------
\* Claims about the DNS appliers
\* ------------------------------------------------------------------------

\* C5: an applier call whose child operation never responds is ended by
\* its timeout: while the call waits for such a child, either its deadline
\* can still fire or, the deadline having passed, the cancellation returns
\* the call with a failure.
C5_HungChildIsCancelled ==
    (aPc # "idle" /\ childState = "hung")
        => (ENABLED DeadlineFires \/ ENABLED CtxCancels)

\* ------------------------------------------------------------------------
\* Claims about Set and Close
\* ------------------------------------------------------------------------

NilArg == [nil |-> TRUE]

ShutdownArg == [nil |-> FALSE, cfg |-> shutdownConfig]

\* C17: in every state the Router can be in, and for every step of
\* configureInterface that may fail, Set(nil) ends in the same state and
\* returns the same value as Set(&shutdownConfig); when nothing fails,
\* Set(nil) returns nil and leaves the shutdown configuration applied.
C17_NilIsShutdownConfig ==
    /\ \A failAt \in SetFailures :
            SetOutcome(NilArg, failAt) = SetOutcome(ShutdownArg, failAt)
    /\ SetOutcome(NilArg, "none") = [state |-> shutdownConfig, ret |-> "nil"]
    /\ (lastCall.op = "Set" /\ lastSet.arg.nil /\ lastSet.failAt = "none")
            => (lastCall.ret = "nil" /\ applied = shutdownConfig)

\* Set(nil) has returned nil on a Router that is up
C17_Witness ==
    /\ phase = "up"
    /\ lastCall = [op |-> "Set", ret |-> "nil"]
    /\ lastSet.arg.nil

\* C18: when the DNS step of Set fails, Set returns the error and the
\* routes of the configuration it was given are the routes in place: the
\* route changes made before the DNS step are not rolled back.  When the
\* interface step fails, Set returns the error as well.
C18_RoutesStayOnDnsFailure ==
    LET cfg == IF lastSet.arg.nil THEN shutdownConfig ELSE lastSet.arg.cfg
    IN  /\ (lastCall.op = "Set" /\ lastSet.failAt = "dns")
                => (lastCall.ret = "err" /\ applied.routes = cfg.routes)
        /\ (lastCall.op = "Set" /\ lastSet.failAt # "none")
                => lastCall.ret = "err"
        /\ (lastCall.op = "Set" /\ lastSet.failAt = "none")
                => (lastCall.ret = "nil" /\ applied = cfg)

\* the DNS step failed after new routes had been applied over an earlier
\* configuration
C18_Witness ==
    /\ lastCall = [op |-> "Set", ret |-> "err"]
    /\ lastSet.failAt = "dns"
    /\ ~lastSet.arg.nil
    /\ applied.routes = {"r1", "r2"}
    /\ applied.dns = "dnsA"
    /\ lastSet.arg.cfg.dns = "dnsB"

\* C19: no step of Close changes what the last Set applied: every step
\* taken while Close is in progress leaves the applied routes and DNS, the
\* stored handle and the record of the last Set as they were.
C19_CloseKeepsApplied ==
    [][(pc # "idle" \/ pc' # "idle")
          => (/\ applied' = applied
              /\ lastSet' = lastSet
              /\ routeChangeCallback' = routeChangeCallback
              /\ alive' = alive
              /\ nHandles' = nHandles)]_vars

\* Close has returned and the DNS and routes of the last Set are in place
C19_Witness ==
    /\ phase = "closed"
    /\ lastCall = [op |-> "Close", ret |-> "nil"]
    /\ registered = {}
    /\ applied = [routes |-> {"r1"}, dns |-> "dnsA"]

\* ------------------------------------------------------------------------
\* Claims about the DNS appliers
\* ------------------------------------------------------------------------

\* a call has returned
Returned(call) == aPc = "idle" /\ aCall = call

\* nothing of this component is registered with the mechanism of the call
NothingRegistered(call) ==
    IF call \in ResolvconfCalls
    THEN ~records[resolvconfConfigName].present
    ELSE link = EmptyLink

\* the call was not stopped by something outside it: no child operation
\* failed on its own account, and the tunnel interface was found
Undisturbed == ~fault /\ aRet.at # "interface"

\* C11: after a successful Up, a Down that is not disturbed from outside
\* returns nil and leaves nothing of this component registered; a second
\* such Down right after it returns nil as well and leaves the records and
\* the link exactly as the first Down left them.
C11_DownTwiceIsSafe ==
    \A call \in DownCalls :
        (Returned(call) /\ run.fam = Family(call) /\ Undisturbed)
            => /\ aRet.v = "nil"
               /\ NothingRegistered(call)
               /\ run.downs >= 1 => (records = pre.records /\ link = pre.link)

\* the second Down in a row has returned nil, on openresolv
C11_Witness ==
    /\ Returned("dnsResolvconfDown")
    /\ run = [fam |-> "resolvconf", downs |-> 1]
    /\ tool = "openresolv"
    /\ aImpl = "resolvconfOpenresolv"
    /\ aRet.v = "nil"

\* C12: on either resolvconf implementation, a Down that finds no record
\* under the component's name, and whose probe and command run as the tool
\* makes them run, returns nil and changes no record.
C12_DownOfAbsentRecordSucceeds ==
    (/\ Returned("dnsResolvconfDown")
     /\ ~pre.records[resolvconfConfigName].present
     /\ ~fault)
        => (aRet.v = "nil" /\ records = pre.records)

\* Down was the first call ever made, on the legacy implementation
C12_Witness ==
    /\ Returned("dnsResolvconfDown")
    /\ pre.ret = "none"
    /\ tool = "legacy"
    /\ aImpl = "resolvconfLegacy"
    /\ aRet.v = "nil"

\* what the resolver file is made of: the exclusive record alone when there
\* is one, else every record there is, ours first
EffectiveDNS ==
    LET ours == records[resolvconfConfigName]
        other == records[otherRecordName]
    IN  IF ours.present /\ ours.exclusive THEN ours.content
        ELSE (IF ours.present THEN ours.content ELSE <<>>)
                \o (IF other.present THEN other.content ELSE <<>>)

\* C13: every resolvconf command names the one fixed record, whichever
\* implementation the call detected.  A successful Up that detected
\* openresolv has submitted that record with metric 0 and in exclusive
\* mode, so the effective DNS is the configuration it was given whatever
\* the other interface submitted; a successful Down has withdrawn that
\* record.  Neither touches the record of the other interface.
C13_ExclusiveNamedRecord ==
    LET text == dnsWriteConfig(aCfg.Nameservers, aCfg.Domains) IN
    /\ argv # <<>> => argv[Len(argv)] = resolvconfConfigName
    /\ (/\ Returned("dnsResolvconfUp") /\ aRet.v = "nil"
        /\ aImpl = "resolvconfOpenresolv")
            => /\ argv = <<"resolvconf", "-m", "0", "-x", "-a",
                           resolvconfConfigName>>
               /\ records[resolvconfConfigName] =
                    [present |-> TRUE, content |-> text,
                     exclusive |-> TRUE, metric |-> "0"]
               /\ EffectiveDNS = text
               /\ records[otherRecordName] = pre.records[otherRecordName]
    /\ (Returned("dnsResolvconfDown") /\ aRet.v = "nil")
            => /\ ~records[resolvconfConfigName].present
               /\ records[otherRecordName] = pre.records[otherRecordName]

\* Up has succeeded on openresolv while another interface has a record
C13_Witness ==
    /\ Returned("dnsResolvconfUp")
    /\ aRet.v = "nil"
    /\ aImpl = "resolvconfOpenresolv"
    /\ aCfg.Nameservers = <<ns4, ns6>>
    /\ records[otherRecordName].present

\* C14: the bus calls of resolved Up are SetLinkDNS, then SetLinkDomains,
\* on the same interface index.  SetLinkDomains has been issued only when
\* SetLinkDNS was carried out; when SetLinkDNS fails Up returns the error
\* and SetLinkDNS is the only call it has issued.
C14_DNSBeforeDomains ==
    aCall = "dnsResolvedUp" =>
        /\ Len(busCalls) <= 2
        /\ Len(busCalls) >= 1 =>
              busCalls[1] = BusCall("SetLinkDNS", linkNameservers(aCfg))
        /\ Len(busCalls) = 2 =>
              /\ busCalls[2] = BusCall("SetLinkDomains", linkDomains(aCfg))
              /\ busCalls[2].index = busCalls[1].index
              /\ link.dns = busCalls[1].arg
        /\ aPc = "SetLinkDomains" => Len(busCalls) = 2
        /\ aRet.at = "SetLinkDNS" =>
              (aPc = "idle" /\ aRet.v = "err" /\ Len(busCalls) = 1)
        /\ aRet.v = "nil" => Len(busCalls) = 2

\* SetLinkDNS failed on a link that has no nameservers, and Up returned
C14_Witness ==
    /\ Returned("dnsResolvedUp")
    /\ aRet = Ret("err", "SetLinkDNS")
    /\ ~ctxExpired
    /\ aCfg.Nameservers # <<>>
    /\ link.dns = <<>>

\* C15: a resolved call that finds no tunnel interface returns the
\* not-ready error, has issued no bus call and leaves the link as it was.
C15_NotReadyWithoutBusCall ==
    /\ [](\A call \in ResolvedCalls :
            (Returned(call) /\ aRet.v = "errNotReady")
                => (aRet.at = "interface" /\ busCalls = <<>>
                    /\ link = pre.link))
    /\ [][(/\ aPc = "connect" /\ aPc' # "connect"
           /\ aRet'.at # "connect"
           /\ iface = "absent")
              => (/\ aPc' = "idle"
                  /\ aRet' = Ret("errNotReady", "interface")
                  /\ busCalls' = <<>>
                  /\ link' = link)]_vars

\* Up has succeeded right after an Up that found no interface
C15_Witness ==
    /\ Returned("dnsResolvedUp")
    /\ aRet.v = "nil"
    /\ pre.ret = "errNotReady"

\* C16: resolved Down issues one bus call at most, RevertLink on the
\* tunnel's interface index, and exactly one when it returns nil; the link
\* then has no nameservers and no domains.  At every moment of the call
\* the link is as Down found it or fully reverted.
C16_DownRevertsAtOnce ==
    aCall = "dnsResolvedDown" =>
        /\ Len(busCalls) <= 1
        /\ Len(busCalls) = 1 => busCalls[1] = BusCall("RevertLink", <<>>)
        /\ aPc = "RevertLink" => Len(busCalls) = 1
        /\ link \in {pre.link, EmptyLink}
        /\ (aPc = "idle" /\ aRet.v = "nil")
              => (Len(busCalls) = 1 /\ link = EmptyLink)

\* Down has succeeded right after a successful Up that had registered
\* nameservers and domains
C16_Witness ==
    /\ Returned("dnsResolvedDown")
    /\ aRet.v = "nil"
    /\ run = [fam |-> "resolved", downs |-> 0]
    /\ pre.link.dns # <<>>
    /\ pre.link.domains # <<>>
    /\ link = EmptyLink

\* ------------------------------------------------------------------------
\* Claims about the DNS Manager
\* ------------------------------------------------------------------------

\* who owns the resolver file of the system as it is now
Owner ==
    IF ServiceReportedActive /\ SoleNameserverIsStub THEN "resolved"
    ELSE IF resolvconfBin /\ fileOpenOk /\ LeadingCommentsMention
         THEN "resolvconf"
    ELSE "direct"

OwnerDown ==
    CASE Owner = "resolved"   -> "dnsResolvedDown"
      [] Owner = "resolvconf" -> "dnsResolvconfDown"
      [] OTHER                -> "dnsDirectDown"

\* C20: every Down of the manager delegates to the Down of the applier of
\* whoever owns the resolver file when Down is called, and records the
\* backend detected then, whatever backend the preceding Up detected.
C20_DownDetectsAfresh ==
    [][(mOp' = "Down" /\ managerVars' # managerVars)
          => (/\ mApplier' = OwnerDown
              /\ mBackend' = DetectBackend
              /\ mUpBackend' = mUpBackend)]_vars

\* Up detected resolved; the system changed hands and Down drove the
\* resolvconf applier
C20_Witness ==
    /\ mOp = "Down"
    /\ mUpBackend = "resolved"
    /\ mBackend = "resolvconf-legacy"
    /\ mApplier = "dnsResolvconfDown"

\* ------------------------------------------------------------------------
\* Claims about the encoding and the atomicity of resolved Up
\* ------------------------------------------------------------------------

\* C21: the argument of SetLinkDNS has one record per nameserver, in order:
\* AF_INET with the 4 address bytes for an IPv4 server, AF_INET6 with the
\* 16 address bytes otherwise.  The argument of SetLinkDomains has one
\* record per search domain, in order, with the same string and
\* RoutingOnly false.  An empty list gives an empty argument.
C21_ElementwiseEncoding ==
    (aCall = "dnsResolvedUp" /\ Len(busCalls) >= 1) =>
        /\ LET sent == busCalls[1].arg
               servers == aCfg.Nameservers
           IN  /\ Len(sent) = Len(servers)
               /\ \A i \in 1..Len(servers) :
                    /\ sent[i].Address = servers[i].addr
                    /\ IF servers[i].v = 4
                       THEN sent[i].Family = AF_INET
                            /\ Len(sent[i].Address) = 4
                       ELSE sent[i].Family = AF_INET6
                            /\ Len(sent[i].Address) = 16
        /\ Len(busCalls) >= 2 =>
              LET sent == busCalls[2].arg
                  domains == aCfg.Domains
              IN  /\ Len(sent) = Len(domains)
                  /\ \A j \in 1..Len(domains) :
                        sent[j] = [Domain |-> domains[j],
                                   RoutingOnly |-> FALSE]

\* both calls of an Up with an IPv4 and an IPv6 nameserver and a search
\* domain have been issued
C21_Witness ==
    /\ aCall = "dnsResolvedUp"
    /\ Len(busCalls) = 2
    /\ aCfg.Nameservers = <<ns4, ns6>>
    /\ aCfg.Domains # <<>>
    /\ busCalls[1].arg[1].Family = AF_INET
    /\ busCalls[1].arg[2].Family = AF_INET6

\* C24: whenever resolved Up returns an error, the nameservers and the
\* search domains of the link are what they were when Up was called.
C24_UpAllOrNothing ==
    (Returned("dnsResolvedUp") /\ aRet.v # "nil") => link = pre.link

\* ------------------------------------------------------------------------
\* Claims about the Router's callback and routes
\* ------------------------------------------------------------------------

\* C22: whatever Up, Set and Close calls are made, at most one callback
\* registered by the Router exists at any time, and none is registered
\* once Close has returned.
C22_AtMostOneRegistered ==
    /\ Cardinality(registered) <= 1
    /\ phase = "closed" => registered = {}

\* C23: whenever the routes of a configuration given to Set are in place
\* on a running Router, a route-change callback is registered.
C23_RoutesImplyArmed ==
    (alive /\ applied.routes # {}) => registered # {}

=============================================================================
